---- MODULE Spec2Model ----
(***************************************************************************)
(* Model of the Q# execution harness of src/lib.rs: run_qs, the            *)
(* ExecutionState it fills, and the Receiver implementation (state and     *)
(* message) through which the interpreter engine reports its output.       *)
(*                                                                         *)
(* The engine (qsc) is an external collaborator.  Its behaviour on one     *)
(* source text is a value: the outcome of stateless::Context::new, the     *)
(* sequence of Receiver callbacks made by Context::eval, and the value or  *)
(* error list eval returns.  run_qs only hands the source text to the      *)
(* engine, so a source text is identified with that behaviour.             *)
(***************************************************************************)
EXTENDS Integers, Sequences, FiniteSets, TLC

\* ----------------------------------------------------------------------
\* Bounds
\* ----------------------------------------------------------------------
MaxCalls == 3      \* callbacks made on one ExecutionState (ObserverSpec)
MaxScript == 3     \* callbacks the engine makes in one evaluation (Spec)
MaxErrors == 2     \* length of an error list returned by the engine
MaxQubits == 1     \* largest qubit count of a state dump
MaxPairs == 2      \* largest number of (basis index, amplitude) pairs

\* ----------------------------------------------------------------------
\* Input domains
\* ----------------------------------------------------------------------
SeqsUpTo(S, n) == UNION {[1..k -> S] : k \in 0..n}
NonEmptySeqsUpTo(S, n) == UNION {[1..k -> S] : k \in 1..n}

RECURSIVE Pow2(_)
Pow2(n) == IF n = 0 THEN 1 ELSE 2 * Pow2(n - 1)

\* Message texts.  The empty text is a legal message.
Msgs == {"A", "B"}

\* f64 values, by bit pattern; the harness never computes with them.
\* Complex64 amplitudes with distinct real and imaginary parts.
Amps == {[re |-> 1, im |-> 2], [re |-> 3, im |-> 1]}

\* The arguments of one Receiver::state call: Vec<(BigUint, Complex64)> and
\* the qubit count.
Dumps ==
    UNION {[pairs : SeqsUpTo((0..(Pow2(n) - 1)) \X Amps, MaxPairs),
            qubit_count : {n}] : n \in 0..MaxQubits}

\* The dumps the engine of Spec draws its scripts from: at most one pair,
\* for basis index 0 with the first amplitude.
ScriptDumps ==
    {d \in Dumps : /\ Len(d.pairs) <= 1
                   /\ \A i \in 1..Len(d.pairs) :
                        d.pairs[i][1] = 0 /\ d.pairs[i][2].re = 1}

\* One Receiver callback, as the engine makes it.
StateCall(pairs, n) ==
    [op |-> "state", msg |-> "", pairs |-> pairs, qubit_count |-> n]
MessageCall(m) ==
    [op |-> "message", msg |-> m, pairs |-> <<>>, qubit_count |-> 0]

ScriptCalls ==
    {MessageCall(m) : m \in Msgs}
        \cup {StateCall(d.pairs, d.qubit_count) : d \in ScriptDumps}

\* Errors of stateless::Context::new: only their Debug form is used.
CtxErrors == {[debug |-> "P1"], [debug |-> "P2"]}
\* Errors of Context::eval: a Debug form and an optional stack trace
\* (Option<String> as a sequence of length 0 or 1).
RuntimeErrors ==
    {[debug |-> "E1", stack_trace |-> <<"T1">>],
     [debug |-> "E2", stack_trace |-> <<>>]}

\* Final values of a program, by their Display form.
Values == {"()", "1"}

OkResult(v) == [ok |-> TRUE, value |-> v, errors |-> <<>>]
ErrResult(es) == [ok |-> FALSE, value |-> "", errors |-> es]

\* The engine's behaviour on a source text.  ctx = <<>> means that context
\* construction succeeds; otherwise it is the list of construction errors.
Programs ==
    [ctx : {<<>>},
     script : SeqsUpTo(ScriptCalls, MaxScript),
     result : {OkResult(v) : v \in Values}
                \cup {ErrResult(es) : es \in NonEmptySeqsUpTo(RuntimeErrors, MaxErrors)}]
    \cup
    [ctx : NonEmptySeqsUpTo(CtxErrors, MaxErrors),
     script : {<<>>},
     result : {OkResult("()")}]

NoProgram == [ctx |-> <<>>, script |-> <<>>, result |-> OkResult("()")]

\* ----------------------------------------------------------------------
\* State
\* ----------------------------------------------------------------------
VARIABLES
    pc,        \* position of the caller / run_qs: idle, new, eval, returned
    program,   \* the engine's behaviour on the source text being run
    rec,       \* the ExecutionState local of run_qs (line 50)
    ncalls,    \* number of Receiver callbacks the engine has made in this run
    sent,      \* the texts passed to Receiver::message in this run, in call order
    last,      \* the arguments of the most recent Receiver::state call, if any
    obs,       \* the Result each of those callbacks returned
    errchan,   \* lines written to stderr by this run
    stdout,    \* lines written to stdout by this run
    ret,       \* the value run_qs returned
    prev,      \* the value the previous run of the same source returned
    runs,      \* number of invocations of run_qs on this source so far
    evals      \* number of times this run has started Context::eval

vars ==
    <<pc, program, rec, ncalls, sent, last, obs, errchan, stdout, ret, prev, runs, evals>>

\* ----------------------------------------------------------------------
\* QsError, ExecutionState, QubitState
\* ----------------------------------------------------------------------
ErrorMessage(text) == [error_text |-> text]

NoReturn == [kind |-> "none", value |-> <<>>, error |-> <<>>]
Ok(r) == [kind |-> "Ok", value |-> <<r>>, error |-> <<>>]
Err(e) == [kind |-> "Err", value |-> <<>>, error |-> <<e>>]

QubitState(id, re, im) ==
    [id |-> id, amplitude_real |-> re, amplitude_imaginary |-> im]

DefaultStale == rec
DefaultOneQubit == [states |-> <<>>, qubit_count |-> 1, messages |-> <<>>]
ExecutionStateDefault == [states |-> <<>>, qubit_count |-> 0, messages |-> <<>>]

\* output::format_state_id of the engine: the basis index as binary digits,
\* least significant first, padded with zeros to qubit_count digits, in a ket.
RECURSIVE Bits(_, _)
Bits(id, width) ==
    IF width = 0 THEN ""
    ELSE (IF id % 2 = 1 THEN "1" ELSE "0") \o Bits(id \div 2, width - 1)

format_state_id(id, qubit_count) == "|" \o Bits(id, qubit_count) \o ">"

\* ----------------------------------------------------------------------
\* impl Receiver for ExecutionState
\* ----------------------------------------------------------------------
state_append(self, states, qubit_count) ==
    [self |-> [self EXCEPT
                 !.qubit_count = qubit_count,
                 !.states = @ \o [i \in 1..Len(states) |->
                     QubitState(format_state_id(states[i][1], qubit_count),
                                states[i][2].re, states[i][2].im)]],
     result |-> "Ok"]
state_swapped(self, states, qubit_count) ==
    [self |-> [self EXCEPT
                 !.qubit_count = qubit_count,
                 !.states = [i \in 1..Len(states) |->
                     QubitState(format_state_id(states[i][1], qubit_count),
                                states[i][2].im, states[i][2].re)]],
     result |-> "Ok"]
state_err(self, states, qubit_count) ==
    [self |-> [self EXCEPT
                 !.qubit_count = qubit_count,
                 !.states = [i \in 1..Len(states) |->
                     QubitState(format_state_id(states[i][1], qubit_count),
                                states[i][2].re, states[i][2].im)]],
     result |-> IF qubit_count = 0 /\ states # <<>> THEN "Err" ELSE "Ok"]
state(self, states, qubit_count) ==
    [self |-> [self EXCEPT
                 !.qubit_count = qubit_count,
                 !.states = [i \in 1..Len(states) |->
                     QubitState(format_state_id(states[i][1], qubit_count),
                                states[i][2].re, states[i][2].im)]],
     result |-> "Ok"]

message_dedup(self, msg) ==
    [self |-> IF \E i \in 1..Len(self.messages) : self.messages[i] = msg
              THEN self
              ELSE [self EXCEPT !.messages = Append(@, msg)],
     result |-> "Ok"]
message(self, msg) ==
    [self |-> [self EXCEPT !.messages = Append(@, msg)],
     result |-> "Ok"]

\* ----------------------------------------------------------------------
\* stderr output of run_qs
\* ----------------------------------------------------------------------
\* for error in errors { eprintln!("error: {:?}", error); }
LogContextErrors(errors) ==
    [i \in 1..Len(errors) |-> "error: " \o errors[i].debug]

\* for error in errors { if let Some(t) = error.stack_trace() { eprintln!(t) }
\*                       eprintln!("error: {error:?}"); }
RECURSIVE LogRuntimeErrorsTraceLast(_)
LogRuntimeErrorsTraceLast(errors) ==
    IF errors = <<>> THEN <<>>
    ELSE <<"error: " \o Head(errors).debug>>
            \o Head(errors).stack_trace
            \o LogRuntimeErrorsTraceLast(Tail(errors))
RECURSIVE LogRuntimeErrors(_)
LogRuntimeErrors(errors) ==
    IF errors = <<>> THEN <<>>
    ELSE Head(errors).stack_trace
            \o <<"error: " \o Head(errors).debug>>
            \o LogRuntimeErrors(Tail(errors))

\* ----------------------------------------------------------------------
\* The engine calling back into the Receiver
\* ----------------------------------------------------------------------
CallState(pairs, n) ==
    LET r == state(rec, pairs, n) IN
    /\ rec' = r.self
    /\ obs' = Append(obs, r.result)
    /\ ncalls' = ncalls + 1
    /\ last' = <<StateCall(pairs, n)>>
    /\ sent' = sent

CallMessage(m) ==
    LET r == message(rec, m) IN
    /\ rec' = r.self
    /\ obs' = Append(obs, r.result)
    /\ ncalls' = ncalls + 1
    /\ sent' = Append(sent, m)
    /\ last' = last

\* ----------------------------------------------------------------------
\* run_qs
\* ----------------------------------------------------------------------
Init ==
    /\ pc = "idle"
    /\ program = NoProgram
    /\ rec = [states |-> <<>>, qubit_count |-> 0, messages |-> <<>>]
    /\ ncalls = 0
    /\ sent = <<>>
    /\ last = <<>>
    /\ obs = <<>>
    /\ errchan = <<>>
    /\ stdout = <<>>
    /\ ret = NoReturn
    /\ prev = NoReturn
    /\ runs = 0
    /\ evals = 0

\* The caller invokes run_qs(source) for the first time.
Call ==
    /\ pc = "idle"
    /\ \E p \in Programs : program' = p
    /\ pc' = "new"
    /\ runs' = 1
    /\ UNCHANGED <<rec, ncalls, sent, last, obs, errchan, stdout, ret, prev, evals>>

\* The caller keeps the returned value and invokes run_qs again with the
\* same source text.  The ExecutionState of the finished run is dead memory.
Rerun ==
    /\ pc = "returned"
    /\ runs < 2
    /\ pc' = "new"
    /\ runs' = runs + 1
    /\ prev' = ret
    /\ ret' = NoReturn
    /\ ncalls' = 0
    /\ sent' = <<>>
    /\ last' = <<>>
    /\ obs' = <<>>
    /\ errchan' = <<>>
    /\ stdout' = <<>>
    /\ evals' = 0
    /\ UNCHANGED <<program, rec>>

\* stateless::Context::new returns Err(errors): lines 43-48.
ContextErrAsExecution ==
    /\ pc = "new"
    /\ program.ctx # <<>>
    /\ errchan' = errchan \o LogContextErrors(program.ctx)
    /\ ret' = Err(ErrorMessage("execution error"))
    /\ pc' = "returned"
    /\ UNCHANGED <<program, rec, ncalls, sent, last, obs, stdout, prev, runs, evals>>
ContextErr ==
    /\ pc = "new"
    /\ program.ctx # <<>>
    /\ errchan' = errchan \o LogContextErrors(program.ctx)
    /\ ret' = Err(ErrorMessage("context error"))
    /\ pc' = "returned"
    /\ UNCHANGED <<program, rec, ncalls, sent, last, obs, stdout, prev, runs, evals>>

\* stateless::Context::new returns Ok(context); rec is constructed and
\* context.eval(&mut rec) is entered: lines 42, 50, 51.
StartEval ==
    /\ pc = "new"
    /\ program.ctx = <<>>
    /\ rec' = ExecutionStateDefault
    /\ evals' = evals + 1
    /\ pc' = "eval"
    /\ UNCHANGED <<program, ncalls, sent, last, obs, errchan, stdout, ret, prev, runs>>

\* Inside context.eval the engine makes the next callback of its script.
EngineState ==
    /\ pc = "eval"
    /\ ncalls < Len(program.script)
    /\ LET c == program.script[ncalls + 1] IN
        /\ c.op = "state"
        /\ CallState(c.pairs, c.qubit_count)
    /\ UNCHANGED <<pc, program, errchan, stdout, ret, prev, runs, evals>>

EngineMessage ==
    /\ pc = "eval"
    /\ ncalls < Len(program.script)
    /\ LET c == program.script[ncalls + 1] IN
        /\ c.op = "message"
        /\ CallMessage(c.msg)
    /\ UNCHANGED <<pc, program, errchan, stdout, ret, prev, runs, evals>>

\* context.eval returns Ok(value): lines 53-56.
EvalOkClearsMessages ==
    /\ pc = "eval"
    /\ ncalls = Len(program.script)
    /\ program.result.ok
    /\ stdout' = Append(stdout, program.result.value)
    /\ ret' = Ok([rec EXCEPT !.messages = <<>>])
    /\ pc' = "returned"
    /\ UNCHANGED <<program, rec, ncalls, sent, last, obs, errchan, prev, runs, evals>>
EvalOk ==
    /\ pc = "eval"
    /\ ncalls = Len(program.script)
    /\ program.result.ok
    /\ stdout' = Append(stdout, program.result.value)
    /\ ret' = Ok(rec)
    /\ pc' = "returned"
    /\ UNCHANGED <<program, rec, ncalls, sent, last, obs, errchan, prev, runs, evals>>

\* context.eval returns Err(errors): lines 57-65.
EvalErrPartial ==
    /\ pc = "eval"
    /\ ncalls = Len(program.script)
    /\ ~program.result.ok
    /\ errchan' = errchan \o LogRuntimeErrors(program.result.errors)
    /\ ret' = IF ncalls > 0 THEN Ok(rec)
              ELSE Err(ErrorMessage("execution error"))
    /\ pc' = "returned"
    /\ UNCHANGED <<program, rec, ncalls, sent, last, obs, stdout, prev, runs, evals>>
EvalErr ==
    /\ pc = "eval"
    /\ ncalls = Len(program.script)
    /\ ~program.result.ok
    /\ errchan' = errchan \o LogRuntimeErrors(program.result.errors)
    /\ ret' = Err(ErrorMessage("execution error"))
    /\ pc' = "returned"
    /\ UNCHANGED <<program, rec, ncalls, sent, last, obs, stdout, prev, runs, evals>>

Next ==
    \/ Call
    \/ Rerun
    \/ ContextErr
    \/ StartEval
    \/ EngineState
    \/ EngineMessage
    \/ EvalOk
    \/ EvalErr

Spec == Init /\ [][Next]_vars

\* ----------------------------------------------------------------------
\* The Receiver alone: any callbacks, in any order, on one ExecutionState
\* ----------------------------------------------------------------------
InitObserver ==
    /\ pc = "eval"
    /\ program = NoProgram
    /\ rec = ExecutionStateDefault
    /\ ncalls = 0
    /\ sent = <<>>
    /\ last = <<>>
    /\ obs = <<>>
    /\ errchan = <<>>
    /\ stdout = <<>>
    /\ ret = NoReturn
    /\ prev = NoReturn
    /\ runs = 1
    /\ evals = 1

RecordState ==
    /\ ncalls < MaxCalls
    /\ \E d \in Dumps : CallState(d.pairs, d.qubit_count)
    /\ UNCHANGED <<pc, program, errchan, stdout, ret, prev, runs, evals>>

RecordMessage ==
    /\ ncalls < MaxCalls
    /\ \E m \in Msgs : CallMessage(m)
    /\ UNCHANGED <<pc, program, errchan, stdout, ret, prev, runs, evals>>

NextObserver ==
    \/ RecordState
    \/ RecordMessage

ObserverSpec == InitObserver /\ [][NextObserver]_vars

\* ----------------------------------------------------------------------
\* Properties
\* ----------------------------------------------------------------------

\* C1: whatever callbacks were made on an ExecutionState, its messages are
\* exactly the texts passed to message, in call order; state calls leave
\* them alone.
C1_MessagesAreTheTextsInOrder == rec.messages = sent

C1_Witness ==
    /\ Len(sent) = 2
    /\ sent[1] # sent[2]
    /\ last # <<>>
    /\ ncalls = 3

\* C2: once state has been called, states holds one record per pair of the
\* most recent call, in the same order, and qubit_count is that call's qubit
\* count; nothing of an earlier call remains and message calls change neither.
C2_StateOverwrites ==
    last # <<>> =>
        LET c == last[1] IN
        /\ rec.qubit_count = c.qubit_count
        /\ Len(rec.states) = Len(c.pairs)
        /\ \A i \in 1..Len(c.pairs) :
            rec.states[i].id = format_state_id(c.pairs[i][1], c.qubit_count)

C2_Witness ==
    /\ ncalls = 3
    /\ Len(sent) = 1
    /\ last # <<>>
    /\ Len(last[1].pairs) = 1
    /\ Len(rec.states) = 1

\* C3: a run whose context construction and evaluation succeed and in which
\* the engine calls message once with text m and never calls state returns
\* Ok with messages = <<m>>, qubit_count = 0 and no states.
C3_SingleMessageRun ==
    (/\ pc = "returned"
     /\ program.ctx = <<>>
     /\ program.result.ok
     /\ ncalls = 1
     /\ Len(sent) = 1
     /\ last = <<>>)
    => ret = [kind |-> "Ok",
              value |-> <<[states |-> <<>>, qubit_count |-> 0, messages |-> sent]>>,
              error |-> <<>>]

C3_Witness ==
    /\ pc = "returned"
    /\ program.ctx = <<>>
    /\ program.result.ok
    /\ ncalls = 1
    /\ sent = <<"A">>
    /\ last = <<>>
    /\ ret.kind = "Ok"

\* C4: when context construction fails, run_qs returns the error "context
\* error" and no ExecutionState, evaluation is never started and no Receiver
\* callback is made.
C4_ContextError ==
    (pc = "returned" /\ program.ctx # <<>>) =>
        /\ ret.kind = "Err"
        /\ ret.error = <<[error_text |-> "context error"]>>
        /\ ret.value = <<>>
        /\ evals = 0
        /\ ncalls = 0

C4_Witness ==
    /\ pc = "returned"
    /\ Len(program.ctx) = 2
    /\ ret.kind = "Err"

\* C5: when evaluation returns runtime errors, run_qs returns the single error
\* "execution error" and no ExecutionState, whatever callbacks were made; a
\* finished run holds either one ExecutionState or one error, never both.
C5_ExecutionError ==
    pc = "returned" =>
        /\ \/ ret.kind = "Ok" /\ Len(ret.value) = 1 /\ ret.error = <<>>
           \/ ret.kind = "Err" /\ ret.value = <<>> /\ Len(ret.error) = 1
        /\ (program.ctx = <<>> /\ ~program.result.ok) =>
            /\ ret.kind = "Err"
            /\ ret.error = <<[error_text |-> "execution error"]>>

C5_Witness ==
    /\ pc = "returned"
    /\ program.ctx = <<>>
    /\ ~program.result.ok
    /\ rec.messages # <<>>
    /\ rec.states # <<>>
    /\ ret.kind = "Err"

\* Number of stderr lines run_qs has written once it is done with the i-th
\* runtime error: one per error, one more per error carrying a stack trace.
C6_LinesThrough(errors, i) ==
    i + Cardinality({j \in 1..i : errors[j].stack_trace # <<>>})

\* C6: when a failing run returns, stderr holds every error of the failure
\* list once and in list order; a runtime error's stack trace, when it has one,
\* is the line just before that error's debug form.
C6_DiagnosticsEmitted ==
    (pc = "returned" /\ ret.kind = "Err") =>
        IF program.ctx # <<>>
        THEN /\ Len(errchan) = Len(program.ctx)
             /\ \A i \in 1..Len(program.ctx) :
                    errchan[i] = "error: " \o program.ctx[i].debug
        ELSE LET errors == program.result.errors IN
             /\ Len(errchan) = C6_LinesThrough(errors, Len(errors))
             /\ \A i \in 1..Len(errors) :
                    LET p == C6_LinesThrough(errors, i) IN
                    /\ errchan[p] = "error: " \o errors[i].debug
                    /\ errors[i].stack_trace # <<>> =>
                        errchan[p - 1] = errors[i].stack_trace[1]

C6_Witness ==
    /\ pc = "returned"
    /\ ret.kind = "Err"
    /\ program.ctx = <<>>
    /\ Len(program.result.errors) = 2
    /\ program.result.errors[1].stack_trace = <<>>
    /\ program.result.errors[2].stack_trace # <<>>
    /\ Len(errchan) = 3

\* C7: after state(pairs, n) the i-th record has the engine's format of the
\* i-th basis index for n as id and the i-th amplitude's real and imaginary
\* parts, unchanged, so the amplitude pair is read back from the record.
C7_RecordsAreThePairs ==
    last # <<>> =>
        LET c == last[1] IN
        /\ DOMAIN rec.states = DOMAIN c.pairs
        /\ \A i \in DOMAIN c.pairs :
            /\ rec.states[i].id = format_state_id(c.pairs[i][1], c.qubit_count)
            /\ [re |-> rec.states[i].amplitude_real,
                im |-> rec.states[i].amplitude_imaginary] = c.pairs[i][2]

C7_Witness ==
    /\ last # <<>>
    /\ last[1].qubit_count = 1
    /\ Len(last[1].pairs) = 2
    /\ last[1].pairs[1][1] = 1
    /\ last[1].pairs[2][1] = 0
    /\ last[1].pairs[1][2] # last[1].pairs[2][2]
    /\ rec.states[1].id = "|1>"
    /\ rec.states[2].id = "|0>"

\* The ids of the records of an ExecutionState, in order.
C8_Ids(r) == [i \in 1..Len(r.states) |-> r.states[i].id]

\* C8: the second run of a source text returns the same kind of outcome as
\* the first and, on success, the same messages, the same qubit_count and
\* states of the same length with the same ids.
C8_Deterministic ==
    (pc = "returned" /\ runs = 2) =>
        /\ ret.kind = prev.kind
        /\ ret.kind = "Ok" =>
            /\ ret.value[1].messages = prev.value[1].messages
            /\ ret.value[1].qubit_count = prev.value[1].qubit_count
            /\ Len(ret.value[1].states) = Len(prev.value[1].states)
            /\ C8_Ids(ret.value[1]) = C8_Ids(prev.value[1])

C8_Witness ==
    /\ pc = "returned"
    /\ runs = 2
    /\ ret.kind = "Ok"
    /\ prev.kind = "Ok"
    /\ Len(ret.value[1].messages) = 2
    /\ Len(ret.value[1].states) = 1

\* C9: every Receiver callback made so far returned Ok.
C9_ObserverAlwaysOk ==
    /\ Len(obs) = ncalls
    /\ \A i \in 1..Len(obs) : obs[i] = "Ok"

C9_Witness ==
    /\ ncalls = 3
    /\ Len(obs) = 3
    /\ Len(sent) = 2
    /\ last # <<>>
    /\ last[1].qubit_count = 0
    /\ last[1].pairs # <<>>

\* C10: a run starts evaluation at most once, only after context construction
\* succeeded and on a freshly constructed ExecutionState; afterwards the
\* ExecutionState changes only in a Receiver callback made during that
\* evaluation, and the value returned is the ExecutionState as evaluation
\* left it.
C10_Step ==
    /\ evals' > evals =>
        /\ evals = 0 /\ evals' = 1
        /\ pc = "new" /\ pc' = "eval"
        /\ program.ctx = <<>>
        /\ rec' = [states |-> <<>>, qubit_count |-> 0, messages |-> <<>>]
    /\ pc' = "eval" => evals' = 1
    /\ (rec' # rec /\ ~(pc = "new" /\ pc' = "eval")) =>
        /\ pc = "eval" /\ pc' = "eval"
        /\ ncalls' = ncalls + 1
    /\ (pc = "eval" /\ pc' = "returned" /\ ret'.kind = "Ok") =>
        ret'.value = <<rec>>

C10_SingleFreshEvaluation == [][C10_Step]_vars

C10_Witness ==
    /\ pc = "returned"
    /\ ret.kind = "Ok"
    /\ evals = 1
    /\ ncalls = 3
    /\ Len(sent) = 2
    /\ ret.value[1].states # <<>>

====
